---- MODULE Spec2Model ----
(***************************************************************************)
(* A model of the <textfit-div> custom element: the lifecycle callbacks,   *)
(* the text observer, the iron-resize handler and the guarded call into    *)
(* the external textFit routine.                                           *)
(*                                                                         *)
(* The repository holds two revisions of the element class.  Both define   *)
(* the tag 'textfit-div', so a page runs one of them: `variant` says       *)
(* which.  They differ only in where the iron-resize listener is added:    *)
(*   src/textfit-div.js      connectedCallback(), on every connection;     *)
(*   src/unnamed/part_000    ready(), once per element.                    *)
(*                                                                         *)
(* this.async(fn) (Polymer) queues fn as a task of its own; the queue is   *)
(* `pending`, run in FIFO order by RunScheduled.  textFit is external: it  *)
(* returns or throws, and it may wrap the container's content into a       *)
(* <span class="textFitted">.  Once wrapped, the template binding {{text}} *)
(* no longer reaches the displayed content, which is why _textChanged      *)
(* writes the span itself.  Texts carry no HTML markup characters.         *)
(***************************************************************************)
EXTENDS Integers, Sequences, FiniteSets, TLC

(* ------------------------------ bounds -------------------------------- *)
MaxTextLen == 1
MaxSize == 1
MaxPending == 2
MaxListeners == 2
MaxSets == 1

(* --------------------------- program constants ------------------------ *)
DefaultMinFontSize == 6
DefaultMaxFontSize == 200

FileA == "src/textfit-div.js"
FileB == "src/unnamed/part_000"
Variants == {FileA, FileB}

Texts == UNION {[1..n -> {"a"}] : n \in 0..MaxTextLen}
\* layout gives the container no extent, or some
Sizes == {0, MaxSize}

SpanOpen == "<span class=\"textFitted\">"
SpanClose == "</span>"

VARIABLES
  variant,       \* which revision of the class is loaded
  isAttached,    \* property isAttached
  manualFire,    \* property manualFire
  text,          \* property text
  cfg,           \* the nine properties doFitMe forwards to textFit
  fitMe,         \* the container <div id="fitMe">: [span, html]
  listeners,     \* number of iron-resize listeners registered on the element
  pending,       \* callbacks queued by this.async, oldest first
  warned,        \* the console holds a warning (console.warn was called)
  lifecycle,     \* history: the most recent of attached() / detached()
  ignoredChange, \* history: the latest text change was not handled (manualFire)
  nSets,         \* history: number of configuration properties set so far
  last           \* history: the operation just performed and what it did

vars == <<variant, isAttached, manualFire, text, cfg, fitMe, listeners,
          pending, warned, lifecycle, ignoredChange, nSets, last>>

(* --------------------------- properties ------------------------------- *)
BoolFields == {"horizontalCenter", "verticalCenter", "multiLine",
               "detectMultiLine", "reProcess", "widthOnly",
               "alignVertWithFlexbox"}
NumFields == {"minFontSize", "maxFontSize"}
Fields == BoolFields \cup NumFields

\* static get properties(): the default values
DefaultCfg ==
  [horizontalCenter |-> FALSE, verticalCenter |-> FALSE, multiLine |-> FALSE,
   detectMultiLine |-> TRUE, minFontSize |-> DefaultMinFontSize,
   maxFontSize |-> DefaultMaxFontSize, reProcess |-> TRUE,
   widthOnly |-> FALSE, alignVertWithFlexbox |-> FALSE]

\* the values a page author may give a property
FieldValues(f) ==
  IF f \in BoolFields THEN BOOLEAN
  ELSE IF f = "minFontSize" THEN {DefaultMinFontSize, DefaultMinFontSize + 1}
  ELSE {DefaultMaxFontSize, DefaultMaxFontSize + 1}

(* ------------------------------ the DOM ------------------------------- *)
\* <div id="fitMe">{{text}}</div> before any fit
Template(t) == [span |-> FALSE, html |-> t]

\* this.$.fitMe.innerHTML, as a sequence of characters and tags
InnerHTML(f) == IF f.span THEN <<SpanOpen>> \o f.html \o <<SpanClose>> ELSE f.html

\* the template binding {{text}}: it writes the text node of the template,
\* which textFit has replaced once the content is wrapped
Binding(f, t) == IF f.span THEN f ELSE [f EXCEPT !.html = t]

\* what textFit may do to the container: nothing, or wrap its content
TextFitEffects(f) == {f, [f EXCEPT !.span = TRUE]}

(* --------------------------- scheduling ------------------------------- *)
\* one queued this.doFitMe; its fields are history: the trigger that queued
\* it, the new text of a text change, and manualFire and the configuration
\* as they were when it was queued
Entry(c, t) == [cause |-> c, text |-> t, mf |-> manualFire, cfgAt |-> cfg]

\* a scheduler that coalesces: nothing is queued while a fit is pending
AsyncDebounced(q, e) == IF q = <<>> THEN Append(q, e) ELSE q

\* this.async(this.doFitMe)
Async(q, e) == Append(q, e)

(* ----------------------------- doFitMe -------------------------------- *)
\* the first two early returns of doFitMe; the size is read after them
HasContent == isAttached /\ ~(Len(InnerHTML(fitMe)) < 1)

\* doFitMe without its size check
DoFitMeGuardNoSize(h, w) == HasContent

\* the three early returns of doFitMe, h and w being the clientHeight and
\* clientWidth of the container
DoFitMeGuard(h, w) == HasContent /\ ~(h <= 0 \/ w <= 0)

\* the options record handed to textFit
Options(c) ==
  [alignHoriz |-> c.horizontalCenter, alignVert |-> c.verticalCenter,
   multiLine |-> c.multiLine, detectMultiLine |-> c.detectMultiLine,
   minFontSize |-> c.minFontSize, maxFontSize |-> c.maxFontSize,
   reProcess |-> c.reProcess, widthOnly |-> c.widthOnly,
   alignVertWithFlexbox |-> c.alignVertWithFlexbox]

\* a doFitMe that uses the configuration captured when it was queued
RunConfigAtSchedule(e) == e.cfgAt

\* the configuration doFitMe reads: the element's fields when it runs
RunConfig(e) == cfg

\* a doFitMe without try / catch: what textFit throws reaches the caller
Uncaught(threw) == threw

\* try { textFit(...) } catch (e) { ... }: nothing leaves doFitMe
Escapes(threw) == FALSE

\* a catch block that queues another attempt
CaughtRetry(q) == Append(q, [cause |-> "retry", text |-> <<>>,
                             mf |-> manualFire, cfgAt |-> cfg])

\* catch (e) { ... }: nothing is queued again
Caught(q) == q

\* a catch block that swallows the exception silently
WarnNothing(w) == w

\* console.warn(e)
Warn(w) == TRUE

\* history: what an operation did.  A step that does not call textFit
\* records no options, no element and no size
NoOpts == Options(DefaultCfg)

Did(name) ==
  [op |-> name, via |-> "-", cause |-> "-", mf |-> FALSE,
   cfgAt |-> DefaultCfg, same |-> FALSE, height |-> 0, width |-> 0,
   called |-> FALSE, threw |-> FALSE, escaped |-> FALSE, el |-> "-",
   opts |-> NoOpts]

\* doFitMe(), run for entry e (by a queued task or a direct call), with q
\* the queue it leaves behind; h and w are the size layout has given the
\* container when doFitMe reads it
doFitMe(via, e, q) ==
  /\ UNCHANGED <<variant, isAttached, manualFire, text, cfg, listeners,
                 lifecycle, nSets, ignoredChange>>
  /\ LET ran == [Did("doFitMe") EXCEPT !.via = via, !.cause = e.cause,
                                       !.mf = e.mf, !.cfgAt = e.cfgAt]
     IN  IF ~HasContent
           THEN /\ fitMe' = fitMe
                /\ pending' = q
                /\ warned' = warned
                /\ last' = ran
           ELSE \E h \in Sizes, w \in Sizes :
                  IF DoFitMeGuard(h, w)
                    THEN \E threw \in BOOLEAN, dom \in TextFitEffects(fitMe) :
                           /\ fitMe' = dom
                           /\ pending' = IF threw THEN Caught(q) ELSE q
                           /\ warned' = IF threw THEN Warn(warned) ELSE warned
                           /\ last' = [ran EXCEPT
                                         !.height = h, !.width = w,
                                         !.called = TRUE, !.threw = threw,
                                         !.escaped = Escapes(threw),
                                         !.el = "fitMe",
                                         !.opts = Options(RunConfig(e))]
                    ELSE /\ fitMe' = fitMe
                         /\ pending' = q
                         /\ warned' = warned
                         /\ last' = [ran EXCEPT !.height = h, !.width = w]

\* the task queued by this.async runs
RunScheduled ==
  /\ pending # <<>>
  /\ doFitMe("scheduled", Head(pending), Tail(pending))

\* the page calls doFitMe() itself
CallDoFitMe == doFitMe("manual", Entry("manual", <<>>), pending)

(* ----------------------------- triggers ------------------------------- *)
\* attached() that queues nothing
attachedUnscheduled(q) == q

\* attached()
attached(q) == IF manualFire THEN q ELSE Async(q, Entry("attached", <<>>))

\* connectedCallback() of src/textfit-div.js: one more listener each time
ConnectedCallbackListeners(n) == n + 1

\* ready() of src/unnamed/part_000: runs once, adds the one listener
ReadyListeners(n) == 1

connectedCallback ==
  /\ variant = FileA => listeners < MaxListeners
  /\ Len(attached(pending)) <= MaxPending
  /\ isAttached' = TRUE
  /\ lifecycle' = "attached"
  /\ pending' = attached(pending)
  /\ listeners' = IF variant = FileA THEN ConnectedCallbackListeners(listeners)
                                     ELSE ReadyListeners(listeners)
  /\ last' = Did("attached")
  /\ UNCHANGED <<variant, manualFire, text, cfg, fitMe, warned, nSets,
                 ignoredChange>>

\* detached() that forgets to clear the flag
detachedKeepsFlag ==
  /\ isAttached' = isAttached
  /\ lifecycle' = "detached"
  /\ last' = Did("detached")
  /\ UNCHANGED <<variant, manualFire, text, cfg, fitMe, listeners, pending,
                 warned, nSets, ignoredChange>>

\* detached()
detached ==
  /\ isAttached' = FALSE
  /\ lifecycle' = "detached"
  /\ last' = Did("detached")
  /\ UNCHANGED <<variant, manualFire, text, cfg, fitMe, listeners, pending,
                 warned, nSets, ignoredChange>>

\* newText !== oldText && !this.manualFire
TextChangedGuard(newText, oldText) == newText # oldText /\ ~manualFire

\* an observer that leaves the fitted span as it is
TextChangedSpanStale(f, newText) == f

\* var span = querySelector('.textFitted'); if (span) span.innerHTML = newText
TextChangedSpan(f, newText) == IF f.span THEN [f EXCEPT !.html = newText] ELSE f

\* _textChanged(newText, oldText) on container f and queue q: <<f', q'>>
TextChanged(f, q, newText, oldText) ==
  IF TextChangedGuard(newText, oldText)
    THEN <<TextChangedSpan(f, newText), Async(q, Entry("text", newText))>>
    ELSE <<f, q>>

\* the page sets the text property: the binding, then the observer
SetText(n) ==
  /\ n # text
  /\ LET r == TextChanged(Binding(fitMe, n), pending, n, text) IN
       /\ Len(r[2]) <= MaxPending
       /\ fitMe' = r[1]
       /\ pending' = r[2]
  /\ text' = n
  /\ ignoredChange' = ~TextChangedGuard(n, text)
  /\ last' = Did("setText")
  /\ UNCHANGED <<variant, isAttached, manualFire, cfg, listeners, warned,
                 lifecycle, nSets>>

\* the observer invoked with the current text and any old value
CallTextChanged(o) ==
  /\ LET r == TextChanged(fitMe, pending, text, o) IN
       /\ Len(r[2]) <= MaxPending
       /\ fitMe' = r[1]
       /\ pending' = r[2]
  /\ ignoredChange' = (ignoredChange /\ ~TextChangedGuard(text, o))
  /\ last' = [Did("textChanged") EXCEPT !.same = (o = text)]
  /\ UNCHANGED <<variant, isAttached, manualFire, text, cfg, listeners,
                 warned, lifecycle, nSets>>

\* a resize handler without the manualFire check
onIronResizeAlways(q) == Async(q, Entry("resize", <<>>))

\* onIronResize() / _onIronResize()
onIronResize(q) == IF manualFire THEN q ELSE Async(q, Entry("resize", <<>>))

\* an iron-resize event reaches every registered listener in turn
RECURSIVE Dispatch(_, _)
Dispatch(q, k) == IF k = 0 THEN q ELSE Dispatch(onIronResize(q), k - 1)

IronResize ==
  /\ listeners > 0
  /\ Len(Dispatch(pending, listeners)) <= MaxPending
  /\ pending' = Dispatch(pending, listeners)
  /\ last' = Did("ironResize")
  /\ UNCHANGED <<variant, isAttached, manualFire, text, cfg, fitMe,
                 listeners, warned, lifecycle, nSets, ignoredChange>>

(* ---------------------------- environment ----------------------------- *)
\* the page sets manualFire
SetManualFire(b) ==
  /\ b # manualFire
  /\ manualFire' = b
  /\ last' = Did("setManualFire")
  /\ UNCHANGED <<variant, isAttached, text, cfg, fitMe, listeners, pending,
                 warned, lifecycle, nSets, ignoredChange>>

\* the page sets one of the nine forwarded properties
SetProperty(f, v) ==
  /\ nSets < MaxSets
  /\ v # cfg[f]
  /\ cfg' = [cfg EXCEPT ![f] = v]
  /\ nSets' = nSets + 1
  /\ last' = Did("setProperty")
  /\ UNCHANGED <<variant, isAttached, manualFire, text, fitMe, listeners,
                 pending, warned, lifecycle, ignoredChange>>

(* --------------------------- specification ---------------------------- *)
Init ==
  /\ variant \in Variants
  /\ isAttached = FALSE
  /\ manualFire = FALSE
  /\ text = <<>>
  /\ cfg = DefaultCfg
  /\ fitMe = Template(<<>>)
  /\ listeners = 0
  /\ pending = <<>>
  /\ warned = FALSE
  /\ lifecycle = "none"
  /\ ignoredChange = FALSE
  /\ nSets = 0
  /\ last = Did("init")

Next ==
  \/ connectedCallback
  \/ detached
  \/ \E n \in Texts : SetText(n)
  \/ \E o \in Texts : CallTextChanged(o)
  \/ IronResize
  \/ \E b \in BOOLEAN : SetManualFire(b)
  \/ RunScheduled
  \/ CallDoFitMe

\* the element with its nine forwarded properties left as declared
Spec == Init /\ [][Next]_vars

\* the element in automatic mode: manualFire is left at its default, false
NextAuto ==
  \/ connectedCallback
  \/ detached
  \/ \E n \in Texts : SetText(n)
  \/ \E o \in Texts : CallTextChanged(o)
  \/ IronResize
  \/ RunScheduled
  \/ CallDoFitMe

\* queued tasks are run: the task queue is served whenever it is not empty
FairSpec == Init /\ [][NextAuto]_vars /\ WF_vars(RunScheduled)

\* <textfit-div text="..."> as the parser creates it: the text attribute
\* is rendered by the binding and observed once (old value undefined)
InitCfg ==
  /\ variant \in Variants
  /\ isAttached = FALSE
  /\ manualFire = FALSE
  /\ text \in Texts
  /\ cfg = DefaultCfg
  /\ fitMe = Template(text)
  /\ listeners = 0
  /\ pending = TextChanged(Template(text), <<>>, text, <<>>)[2]
  /\ warned = FALSE
  /\ lifecycle = "none"
  /\ ignoredChange = FALSE
  /\ nSets = 0
  /\ last = Did("init")

\* the element with its forwarded properties set at run time
NextCfg ==
  \/ connectedCallback
  \/ detached
  \/ \E f \in Fields : \E v \in FieldValues(f) : SetProperty(f, v)
  \/ RunScheduled
  \/ CallDoFitMe

SpecCfg == InitCfg /\ [][NextCfg]_vars

(* ------------------------------ claims -------------------------------- *)
\* a step in which doFitMe ran / called textFit
RanDoFitMe == last'.op = "doFitMe"
CalledTextFit == last'.op = "doFitMe" /\ last'.called

\* C1: every run of doFitMe, queued or direct, calls textFit only if at that
\* moment isAttached is true, the container's innerHTML has length at least
\* 1 and clientHeight and clientWidth are both greater than 0; if one of
\* these fails it returns without calling textFit and touches nothing.
C1_GuardedCall ==
  [][/\ CalledTextFit =>
          /\ isAttached
          /\ Len(InnerHTML(fitMe)) >= 1
          /\ last'.height > 0 /\ last'.width > 0
     /\ (RanDoFitMe /\ ~(/\ isAttached
                         /\ Len(InnerHTML(fitMe)) >= 1
                         /\ last'.height > 0 /\ last'.width > 0)) =>
          /\ ~last'.called
          /\ fitMe' = fitMe /\ warned' = warned]_vars

\* a queued doFitMe found all three conditions met and called textFit
C1_Witness ==
  /\ last.op = "doFitMe" /\ last.via = "scheduled" /\ last.called
  /\ isAttached /\ last.height > 0 /\ last.width > 0

\* C7: after any sequence of attached() and detached() calls isAttached is
\* true exactly when the most recent of them was attached(); so a doFitMe
\* that runs while the element is detached, whenever it was queued, makes
\* no call to textFit.
C7_DetachCancels ==
  /\ isAttached <=> lifecycle = "attached"
  /\ (last.op = "doFitMe" /\ lifecycle # "attached") => ~last.called

\* a fit queued by attached() ran after detached() and was skipped
C7_Witness ==
  /\ last.op = "doFitMe" /\ last.via = "scheduled"
  /\ last.cause = "attached"
  /\ lifecycle = "detached" /\ ~isAttached /\ ~last.called
  /\ Len(InnerHTML(fitMe)) >= 1

\* a step that is one of the three triggers
Triggers == {"attached", "setText", "textChanged", "ironResize"}

\* C3 as stated: in every state where manualFire is true, textFit is invoked
\* only as the result of a manual call to doFitMe().
C3_OnlyManualWhileManualFire ==
  (manualFire /\ last.op = "doFitMe" /\ last.called) => last.via = "manual"

\* C3 as amended: while manualFire is true, attached(), an iron-resize event
\* and a text change neither call textFit nor queue a doFitMe; so textFit is
\* invoked only by a manual doFitMe() or by a run that was queued while
\* manualFire was still false.
C3_NoTriggerWhileManualFire ==
  /\ [][(manualFire /\ last'.op \in Triggers) =>
          (pending' = pending /\ ~last'.called)]_vars
  /\ [](\A i \in 1..Len(pending) : ~pending[i].mf)
  /\ []((last.op = "doFitMe" /\ last.called) =>
          (last.via = "manual" \/ ~last.mf))

\* a fit queued before manualFire was set ran, and called textFit, after it
C3_Witness ==
  /\ manualFire /\ last.op = "doFitMe" /\ last.called
  /\ last.via = "scheduled" /\ ~last.mf

\* C4 as stated: triggers are debounced, a burst of triggers before the
\* queued task runs leaves a single doFitMe to run.
C4_SinglePendingFit == Len(pending) <= 1

\* C4 as amended: nothing coalesces the triggers.  With manualFire false
\* every attached(), every text change and every invocation of the resize
\* handler queues a doFitMe of its own, and every queued task runs doFitMe
\* once for the one entry it removes: n triggers, n runs.
C4_OneRunPerTrigger ==
  [][/\ (~manualFire /\ last'.op = "attached") =>
          Len(pending') = Len(pending) + 1
     /\ (~manualFire /\ last'.op = "setText") =>
          Len(pending') = Len(pending) + 1
     /\ (~manualFire /\ last'.op = "textChanged" /\ ~last'.same) =>
          Len(pending') = Len(pending) + 1
     /\ (~manualFire /\ last'.op = "ironResize") =>
          Len(pending') = Len(pending) + listeners
     /\ (last'.op = "doFitMe" /\ last'.via = "scheduled") =>
          (pending # <<>> /\ pending' = Tail(pending)
           /\ last'.cause = Head(pending).cause)]_vars

\* the fit queued by attached() has run while the fit queued by a text
\* change made in the same burst is still waiting for its own run
C4_Witness ==
  /\ last.op = "doFitMe" /\ last.via = "scheduled"
  /\ last.cause = "attached"
  /\ pending # <<>> /\ pending[1].cause = "text"

\* C10: the iron-resize listener is registered once per element, so after
\* any number of attach / detach cycles one iron-resize event (manualFire
\* false) queues exactly one doFitMe.
C10_OneFitPerResizeEvent ==
  [][(~manualFire /\ last'.op = "ironResize") =>
       Len(pending') = Len(pending) + 1]_vars

\* the new text of the most recent text change that still has its fit queued
NewestQueuedText(q) ==
  LET I == {i \in 1..Len(q) : q[i].cause = "text"}
      m == CHOOSE i \in I : \A j \in I : j <= i
  IN  q[m].text

\* a step in which the queued fit of a text change ran
RanTextFit ==
  last'.op = "doFitMe" /\ last'.via = "scheduled" /\ last'.cause = "text"

CauseOf(op) ==
  IF op = "attached" THEN "attached"
  ELSE IF op = "ironResize" THEN "resize" ELSE "text"

\* a step in which a trigger passed its handler's check
Triggered ==
  /\ ~manualFire
  /\ \/ last'.op \in {"attached", "setText", "ironResize"}
     \/ last'.op = "textChanged" /\ ~last'.same

\* C5: with manualFire false, attached(), a text change to a different text
\* and an iron-resize event never call textFit inside the handler; they
\* queue doFitMe as a later task, and when queued tasks are served the
\* doFitMe at the head of the queue, whichever trigger queued it,
\* eventually runs.
C5_FitRunsLater ==
  /\ [][Triggered =>
          /\ ~last'.called
          /\ fitMe'.span = fitMe.span /\ warned' = warned
          /\ Len(pending') > Len(pending)
          /\ SubSeq(pending', 1, Len(pending)) = pending
          /\ pending'[Len(pending')].cause = CauseOf(last'.op)]_vars
  /\ \A c \in {"attached", "text", "resize"} :
       (pending # <<>> /\ Head(pending).cause = c) ~>
         (last.op = "doFitMe" /\ last.via = "scheduled" /\ last.cause = c)

\* the fit queued by attached() is waiting; textFit has not been called
C5_Witness ==
  /\ last.op = "attached" /\ ~manualFire /\ ~last.called
  /\ pending # <<>> /\ pending[Len(pending)].cause = "attached"
  /\ ~fitMe.span /\ text # <<>>

\* C6: a fit is never retried.  A doFitMe that is skipped by a guard or
\* whose textFit call throws queues nothing: a queued run takes its own
\* entry off the queue, a direct call leaves the queue alone, only trigger
\* steps make the queue longer, and once triggers stop the queue drains to
\* empty.
C6_NoRetry ==
  /\ [][/\ last'.op = "doFitMe" =>
             pending' = (IF last'.via = "scheduled" THEN Tail(pending)
                                                   ELSE pending)
        /\ Len(pending') > Len(pending) => last'.op \in Triggers]_vars
  /\ (<>[][last'.op \notin Triggers]_vars) => <>[](pending = <<>>)

\* a queued fit called textFit, which threw; nothing is left queued
C6_Witness ==
  /\ last.op = "doFitMe" /\ last.via = "scheduled" /\ last.threw
  /\ warned /\ pending = <<>>

\* C2: an exception thrown by textFit inside doFitMe is caught and reduced
\* to a console warning.  doFitMe returns normally to its caller, the
\* element's isAttached and configuration are unchanged, and later triggers
\* are handled as before: they queue their fit and the fit calls textFit.
C2_ExceptionCaught ==
  [][/\ (last'.op = "doFitMe" /\ last'.threw) =>
          /\ ~last'.escaped /\ warned'
          /\ UNCHANGED <<isAttached, manualFire, text, cfg, listeners>>
          /\ pending' = (IF last'.via = "scheduled" THEN Tail(pending)
                                                   ELSE pending)
     /\ (warned /\ Triggered) => Len(pending') > Len(pending)
     /\ (warned /\ RanDoFitMe /\ isAttached /\ Len(InnerHTML(fitMe)) >= 1
           /\ last'.height > 0 /\ last'.width > 0) => last'.called]_vars

\* after an exception was logged, the fit queued by a later resize event
\* ran and textFit returned normally
C2_Witness ==
  /\ warned /\ last.op = "doFitMe" /\ last.via = "scheduled"
  /\ last.cause = "resize" /\ last.called /\ ~last.threw

\* C8: when doFitMe calls textFit it passes the fitMe container and an
\* options record whose nine fields are the element's configuration at the
\* time doFitMe runs, not at the time the fit was queued; doFitMe leaves
\* every configuration field and isAttached unchanged.
C8_OptionsAtRunTime ==
  [][/\ CalledTextFit =>
          /\ last'.el = "fitMe"
          /\ last'.opts =
               [alignHoriz |-> cfg.horizontalCenter,
                alignVert |-> cfg.verticalCenter,
                multiLine |-> cfg.multiLine,
                detectMultiLine |-> cfg.detectMultiLine,
                minFontSize |-> cfg.minFontSize,
                maxFontSize |-> cfg.maxFontSize,
                reProcess |-> cfg.reProcess,
                widthOnly |-> cfg.widthOnly,
                alignVertWithFlexbox |-> cfg.alignVertWithFlexbox]
     /\ RanDoFitMe => UNCHANGED <<cfg, isAttached, manualFire, text>>]_vars

\* a queued fit called textFit after a property was set in between: the
\* options are those of the run, not of the time it was queued
C8_Witness ==
  /\ last.op = "doFitMe" /\ last.via = "scheduled" /\ last.called
  /\ last.cfgAt # cfg
  /\ last.opts = Options(cfg) /\ last.opts # Options(last.cfgAt)

====
